---- MODULE Spec2Model ----
(***************************************************************************)
(* Model of the two request handlers of the YouTube audio downloader:      *)
(*   - POST /api/download  (src/src/app/api/download/route.ts, 1-198)      *)
(*   - POST /api/info      (src/src/app/api/download/route.ts, 347-453)    *)
(* Lines 200-345 of that file hold an earlier version of the download       *)
(* route; it is not modelled.                                              *)
(* and of the page that calls them:                                        *)
(*   - Home                (src/src/app/page.tsx)                          *)
(* A JavaScript string is a sequence of fragments.  URLs and file names    *)
(* are written one character per fragment, because the code looks inside   *)
(* them (regular expression, endsWith, split); literals that the code only *)
(* compares or copies are a single fragment.  "" is the empty sequence.    *)
(***************************************************************************)
EXTENDS Integers, Sequences, FiniteSets, TLC

(* ---------------------------------------------------------------------- *)
(* Bounds of the model                                                     *)
(* ---------------------------------------------------------------------- *)
\* files the external tool may leave in one scratch directory
MaxFiles == 2
\* 'data' chunks the external tool may write to its standard error
MaxStderr == 1
\* identifiers uuidv4() draws from
NumIds == 2
\* entries of the formats array in the tool's JSON record
MaxFormats == 2
\* fetch() calls the page may make
MaxFetches == 4
\* timeouts of the page that may be pending at once
MaxTimers == 2

(* ---------------------------------------------------------------------- *)
(* JavaScript values and strings                                           *)
(* ---------------------------------------------------------------------- *)
Str(s) == [t |-> "string", v |-> s]
Undefined == [t |-> "undefined", v |-> <<>>]
\* JavaScript truthiness of a string-or-undefined value
Truthy(x) == x.t = "string" /\ x.v # <<>>

StartsWithAt(s, p, i) ==
    /\ i + Len(p) - 1 <= Len(s)
    /\ \A k \in 1..Len(p) : s[i + k - 1] = p[k]

StartsWith(s, p) == StartsWithAt(s, p, 1)

\* String.prototype.endsWith
EndsWith(s, p) ==
    /\ Len(p) <= Len(s)
    /\ \A k \in 1..Len(p) : s[Len(s) - Len(p) + k] = p[k]

\* Array.prototype.includes
Includes(arr, x) == \E i \in 1..Len(arr) : arr[i] = x

\* Array.prototype.indexOf, 1-based; 0 when absent (JavaScript: -1)
IndexOf(arr, x) ==
    IF Includes(arr, x)
    THEN CHOOSE i \in 1..Len(arr) : arr[i] = x /\ \A j \in 1..(i - 1) : arr[j] # x
    ELSE 0

\* arr.splice(i0, 0, x) with i0 the 0-based JavaScript index: a negative index
\* counts from the end of the array
SpliceInsert(arr, i0, x) ==
    LET n == Len(arr)
        at == IF i0 < 0 THEN (IF n + i0 < 0 THEN 0 ELSE n + i0)
              ELSE (IF i0 > n THEN n ELSE i0)
    IN SubSeq(arr, 1, at) \o <<x>> \o SubSeq(arr, at + 1, n)

(* ---------------------------------------------------------------------- *)
(* Constant tables of the download route                                   *)
(* ---------------------------------------------------------------------- *)
AUDIO_FORMATS ==
    << <<"best">>, <<"aac">>, <<"alac">>, <<"flac">>, <<"m4a">>, <<"mp3">>,
       <<"opus">>, <<"vorbis">>, <<"wav">> >>

THUMBNAIL_SUPPORTED ==
    << <<"mp3">>, <<"mkv">>, <<"mka">>, <<"ogg">>, <<"opus">>, <<"flac">>,
       <<"m4a">>, <<"mp4">>, <<"m4v">>, <<"mov">> >>

(* ---------------------------------------------------------------------- *)
(* URL validation: /^(https?:\/\/)?(www\.)?(youtube\.com|youtu\.be)\/.+/   *)
(* ---------------------------------------------------------------------- *)
ChHttp == <<"h", "t", "t", "p", ":", "/", "/">>
ChHttps == <<"h", "t", "t", "p", "s", ":", "/", "/">>
ChWww == <<"w", "w", "w", ".">>
ChYoutube == <<"y", "o", "u", "t", "u", "b", "e", ".", "c", "o", "m">>
ChYoutuBe == <<"y", "o", "u", "t", "u", ".", "b", "e">>

\* the characters "." does not match
LineTerminators == {"\n", "\r"}

\* RegExp.prototype.test of the pattern (no flags) on a string: the match is
\* anchored at the start only, each optional group is tried both ways
youtubeRegexTest(s) ==
    \E scheme \in {<<>>, ChHttp, ChHttps} :
      \E www \in {<<>>, ChWww} :
        \E host \in {ChYoutube, ChYoutuBe} :
          LET prefix == scheme \o www \o host \o <<"/">>
          IN /\ StartsWith(s, prefix)
             /\ Len(s) > Len(prefix)
             /\ s[Len(prefix) + 1] \notin LineTerminators


(* ---------------------------------------------------------------------- *)
(* Paths.  A path is the sequence of its components; join appends.         *)
(* ---------------------------------------------------------------------- *)
Join(a, b) == a \o b

\* os.tmpdir()
tmpdir == <<"tmp">>

\* the values uuidv4() may return
Ids == {ToString(i) : i \in 1..NumIds}

\* faulty variant of TempDirOf: the identifier is left out of the path
TempDirShared(downloadId) == Join(tmpdir, <<"yt-audio-downloads">>)

\* join(tmpdir(), 'yt-audio-downloads', downloadId)
TempDirOf(downloadId) == Join(Join(tmpdir, <<"yt-audio-downloads">>), <<downloadId>>)

\* join(tempDir, '%(title)s.%(ext)s')
OutputTemplateOf(tempDir) == Join(tempDir, <<"%(title)s.%(ext)s">>)

\* the directory the external tool writes to: the -o argument without its
\* last component
OutputDirOfArgs(args) ==
    LET tmpl == args[IndexOf(args, <<"-o">>) + 1]
    IN SubSeq(tmpl, 1, Len(tmpl) - 1)

(* ---------------------------------------------------------------------- *)
(* Download route: validation and argument list                           *)
(* ---------------------------------------------------------------------- *)
\* faulty variant of UrlCheck: the pattern is not tested
UrlCheckRequiredOnly(url) ==
    IF ~Truthy(url) THEN <<"URL is required">> ELSE <<>>

\* faulty variant of FormatCheck: the format is looked up in the wrong table
FormatCheckWrongTable(format, original) ==
    IF ~original /\ Truthy(format) /\ ~Includes(THUMBNAIL_SUPPORTED, format.v)
    THEN <<"Invalid audio format">>
    ELSE <<>>

\* the three early 400 returns of a handler, as the error text ("" = passed)
UrlCheck(url) ==
    IF ~Truthy(url) THEN <<"URL is required">>
    ELSE IF ~youtubeRegexTest(url.v) THEN <<"Invalid YouTube URL">>
    ELSE <<>>

FormatCheck(format, original) ==
    IF ~original /\ Truthy(format) /\ ~Includes(AUDIO_FORMATS, format.v)
    THEN <<"Invalid audio format">>
    ELSE <<>>

DownloadValidate(url, format, original) ==
    IF UrlCheck(url) # <<>> THEN UrlCheck(url) ELSE FormatCheck(format, original)

\* format || 'mp3'
TargetFormat(format) == IF Truthy(format) THEN format.v ELSE <<"mp3">>

\* the args.push(...) of either branch
BaseArgs(audioFormat, outputTemplate, url) ==
    << <<"-x">>,
       <<"--audio-format">>, audioFormat,
       <<"--audio-quality">>, <<"0">>,
       <<"--embed-metadata">>,
       <<"--parse-metadata">>, <<"description:(?s)(?P<meta_comment>.+)">>,
       <<"-o">>, outputTemplate,
       <<"--no-warnings">>,
       <<"--no-playlist">>,
       url >>

\* args.splice(args.indexOf('--embed-metadata'), 0, '--embed-thumbnail')
EmbedThumbnail(args) ==
    SpliceInsert(args, IndexOf(args, <<"--embed-metadata">>) - 1, <<"--embed-thumbnail">>)

\* faulty variant of ThumbnailForFormat: the flag is added for every format
ThumbnailAlways(targetFormat) == TRUE

\* the thumbnail decision of the convert branch
ThumbnailForFormat(targetFormat) == Includes(THUMBNAIL_SUPPORTED, targetFormat)

BuildArgs(url, format, original, tempDir) ==
    LET outputTemplate == OutputTemplateOf(tempDir)
        pushed == IF original
                  THEN BaseArgs(<<"opus">>, outputTemplate, url)
                  ELSE BaseArgs(TargetFormat(format), outputTemplate, url)
        branch == IF ~original /\ ThumbnailForFormat(TargetFormat(format))
                  THEN EmbedThumbnail(pushed)
                  ELSE pushed
    IN IF original THEN EmbedThumbnail(branch) ELSE branch


(* ---------------------------------------------------------------------- *)
(* Download route: choosing the result file and its content type          *)
(* ---------------------------------------------------------------------- *)
\* the predicate of files.filter(...): not an image left behind by a failed
\* thumbnail embedding
NotSidecar(f) ==
    /\ ~EndsWith(f, <<".", "j", "p", "g">>)
    /\ ~EndsWith(f, <<".", "p", "n", "g">>)
    /\ ~EndsWith(f, <<".", "w", "e", "b", "p">>)

\* faulty variant of AudioFilesOf: the listing is not filtered
AudioFilesUnfiltered(files) == files

AudioFilesOf(files) == SelectSeq(files, NotSidecar)

UpperCase == <<"A", "B", "C", "D", "E", "F", "G", "H", "I", "J", "K", "L", "M",
               "N", "O", "P", "Q", "R", "S", "T", "U", "V", "W", "X", "Y", "Z">>
LowerCase == <<"a", "b", "c", "d", "e", "f", "g", "h", "i", "j", "k", "l", "m",
               "n", "o", "p", "q", "r", "s", "t", "u", "v", "w", "x", "y", "z">>

\* String.prototype.toLowerCase
toLowerCase(s) ==
    [i \in 1..Len(s) |->
        IF Includes(UpperCase, s[i]) THEN LowerCase[IndexOf(UpperCase, s[i])] ELSE s[i]]

\* filename.split('.').pop(): what follows the last ".", the whole name
\* when it has none
LastDotPart(s) ==
    LET dots == {i \in 1..Len(s) : s[i] = "."}
    IN IF dots = {} THEN s
       ELSE LET last == CHOOSE i \in dots : \A j \in dots : j <= i
            IN SubSeq(s, last + 1, Len(s))

\* faulty variant of ExtOf: the extension is looked up as it is written
ExtOfAsWritten(filename) ==
    IF LastDotPart(filename) = <<>> THEN <<"audio">> ELSE LastDotPart(filename)

\* filename.split('.').pop()?.toLowerCase() || 'audio'
ExtOf(filename) ==
    IF toLowerCase(LastDotPart(filename)) = <<>> THEN <<"audio">>
    ELSE toLowerCase(LastDotPart(filename))

\* the contentTypes table as (extension, type) pairs
contentTypes ==
    << << <<"m", "p", "3">>, <<"audio/mpeg">> >>,
       << <<"m", "4", "a">>, <<"audio/mp4">> >>,
       << <<"a", "a", "c">>, <<"audio/aac">> >>,
       << <<"o", "p", "u", "s">>, <<"audio/ogg">> >>,
       << <<"o", "g", "g">>, <<"audio/ogg">> >>,
       << <<"w", "e", "b", "m">>, <<"audio/webm">> >>,
       << <<"f", "l", "a", "c">>, <<"audio/flac">> >>,
       << <<"w", "a", "v">>, <<"audio/wav">> >>,
       << <<"a", "l", "a", "c">>, <<"audio/mp4">> >>,
       << <<"v", "o", "r", "b", "i", "s">>, <<"audio/ogg">> >> >>

\* contentTypes[ext] || 'application/octet-stream'
ContentTypeOf(ext) ==
    IF \E i \in 1..Len(contentTypes) : contentTypes[i][1] = ext
    THEN contentTypes[CHOOSE i \in 1..Len(contentTypes) : contentTypes[i][1] = ext][2]
    ELSE <<"application/octet-stream">>

(* ---------------------------------------------------------------------- *)
(* Info route: the tool's JSON record and the audio-only filter           *)
(* ---------------------------------------------------------------------- *)
\* one token of the tool's standard output
Tok(k) == [k |-> k, format_id |-> "", ext |-> "", acodec |-> "", vcodec |-> "", audio_ext |-> ""]

\* an entry of data.formats, as the token that carries it
VideoFormat(id, ext, acodec, vcodec, audio_ext) ==
    [k |-> "format", format_id |-> id, ext |-> ext, acodec |-> acodec,
     vcodec |-> vcodec, audio_ext |-> audio_ext]

\* the text of a record {"formats": [f1, ..., fn]}
JsonRecord(formats) ==
    <<Tok("{"), Tok("formats:"), Tok("[")>> \o formats \o <<Tok("]"), Tok("}")>>

\* the text of a record without a formats member
JsonBare == <<Tok("{"), Tok("}")>>

\* JSON.parse(stdout): ok is FALSE where JSON.parse throws SyntaxError;
\* hasFormats tells whether data.formats is defined
JsonParse(text) ==
    LET n == Len(text)
    IN IF text = JsonBare
       THEN [ok |-> TRUE, hasFormats |-> FALSE, formats |-> <<>>]
       ELSE IF /\ n >= 5
               /\ SubSeq(text, 1, 3) = <<Tok("{"), Tok("formats:"), Tok("[")>>
               /\ SubSeq(text, n - 1, n) = <<Tok("]"), Tok("}")>>
               /\ \A i \in 4..(n - 2) : text[i].k = "format"
       THEN [ok |-> TRUE, hasFormats |-> TRUE, formats |-> SubSeq(text, 4, n - 2)]
       ELSE [ok |-> FALSE, hasFormats |-> FALSE, formats |-> <<>>]

\* faulty variant of IsAudioOnly: the video codec is not looked at
HasAudio(f) == f.acodec # "none"

\* the predicate of data.formats.filter(...)
IsAudioOnly(f) == f.vcodec = "none" /\ f.acodec # "none"

\* the object of data.formats....map(...): abr, filesize and format_note are
\* copied unchanged and left out here
MapFormat(f) ==
    [format_id |-> f.format_id,
     ext |-> IF f.audio_ext # "" THEN f.audio_ext ELSE f.ext,
     acodec |-> f.acodec]

AudioFormatsOf(formats) ==
    LET kept == SelectSeq(formats, IsAudioOnly)
    IN [i \in 1..Len(kept) |-> MapFormat(kept[i])]

\* the argument list of getVideoInfo
InfoArgs(url) == << <<"-j">>, <<"--no-warnings">>, url >>


(* ---------------------------------------------------------------------- *)
(* Inputs: request bodies, tool outputs                                    *)
(* ---------------------------------------------------------------------- *)
ChPathA == <<"/", "a">>
ValidUrls ==
    { Str(ChHttps \o ChWww \o ChYoutube \o ChPathA),
      Str(ChYoutuBe \o ChPathA),
      Str(ChHttp \o ChYoutube \o ChPathA) }
InvalidUrls ==
    { Undefined,
      Str(<<>>),
      Str(ChHttps \o ChYoutube),
      Str(ChHttps \o ChYoutube \o <<"/">>),
      Str(ChHttps \o ChYoutube \o <<"/", "\n">>),
      Str(<<"H", "T", "T", "P", "S", ":", "/", "/">> \o ChYoutube \o ChPathA),
      Str(ChHttps \o <<"Y", "o", "u", "T", "u", "b", "e", ".", "c", "o", "m">> \o ChPathA),
      Str(ChHttps \o <<"y", "o", "u", "t", "u", "b", "e", "x", "c", "o", "m">> \o ChPathA),
      Str(ChHttps \o <<"v", "i", "m", "e", "o", ".", "c", "o", "m">> \o ChPathA),
      Str(<<"x">> \o ChHttps \o ChYoutube \o ChPathA),
      Str(ChHttps \o ChWww \o ChWww \o ChYoutube \o ChPathA) }
Urls == ValidUrls \cup InvalidUrls

AllowedFormats == {Str(AUDIO_FORMATS[i]) : i \in 1..Len(AUDIO_FORMATS)}
OtherFormats == {Str(<<"mkv">>), Str(<<"ogg">>), Str(<<"MP3">>)}
Formats == {Undefined, Str(<<>>)} \cup AllowedFormats \cup OtherFormats

\* names the tool may give the files it leaves in the scratch directory
FileNames ==
    { <<"a", ".", "m", "p", "3">>,
      <<"a", ".", "j", "p", "g">>,
      <<"a", ".", "p", "n", "g">>,
      <<"a", ".", "w", "e", "b", "p">>,
      <<"b", ".", "F", "L", "A", "C">>,
      <<"b", ".", "J", "P", "G">> }

\* entries of data.formats the tool may report, the id being the position
FormatAt(i) ==
    { VideoFormat(ToString(i), "mp4", a, v, x) :
        a \in {"none", "opus"}, v \in {"none", "avc1"}, x \in {"", "webm"} }

RECURSIVE FormatLists(_)
FormatLists(n) ==
    IF n = 0 THEN {<<>>}
    ELSE FormatLists(n - 1) \cup
         { Append(l, f) : l \in {m \in FormatLists(n - 1) : Len(m) = n - 1}, f \in FormatAt(n) }

\* what the tool may print in JSON-dump mode: a record, a record without
\* formats, or text that is cut short
ToolOutputs ==
    LET records == {JsonRecord(l) : l \in FormatLists(MaxFormats)}
    IN records \cup {JsonBare, <<>>}
       \cup {SubSeq(d, 1, Len(d) - 1) : d \in records}

\* every order in which readdir may list a set of names
Orders(S) ==
    {s \in [1..Cardinality(S) -> S] : \A i, j \in 1..Cardinality(S) : i # j => s[i] # s[j]}

\* what a scenario draws from: routes, bodies, the values of uuidv4(), tool
\* behaviour, failing calls
Env(routes, urls, formats, originals, ids, names, outputs, failing) ==
    [routes |-> routes, urls |-> urls, formats |-> formats, originals |-> originals,
     ids |-> ids, names |-> names, outputs |-> outputs, failing |-> failing]


(* ---------------------------------------------------------------------- *)
(* State                                                                   *)
(* ---------------------------------------------------------------------- *)
\* the requests in flight at the server: one in Spec, the two concurrent
\* downloads of the isolation property in SpecShared
Requests == {1, 2}

VARIABLES
    fs,          \* the scratch directories: path -> [exists, entries]
    route,       \* which handler serves the request
    body,        \* request.json(): [url, format, original]
    pc,          \* where the handler stands (the await it is suspended at)
    downloadId,  \* const downloadId ("" before uuidv4() is called)
    tempDir,     \* POST: let tempDir (<<>> is null)
    args,        \* the argument list given to spawn
    child,       \* the ChildProcess: none, running, spawnfail, errored, closed
    toolOut,     \* what the tool has still to write to its standard output
    stderrBuf,   \* let stderr
    stdoutBuf,   \* let stdout
    promise,     \* the Promise of runYtDlp / getVideoInfo
    files,       \* const files: the listing readdir returned
    idx,         \* position of the cleanup loop in files
    filename,    \* const filename
    fileBuffer,  \* const fileBuffer
    caught,      \* the error the catch clause received
    resp,        \* the response returned (status 0: none yet)
    events,      \* history: the child events delivered, in order
    log,         \* history: the file system and process calls made, in order
    touched      \* history: the directory entries the handler listed, read or deleted

\* the page (src/src/app/page.tsx): the React state of Home, the requests it
\* has sent and the timeouts it has set
VARIABLES
    state,              \* const [state, setState]: a DownloadState
    videoInfo,          \* const [videoInfo, setVideoInfo]: "null" or "data"
    error,              \* const [error, setError]
    inputUrl,           \* const [url, setUrl]: the text of the URL field
    abortControllerRef, \* abortControllerRef.current: 0 is null, else the fetch it was made for
    fetches,            \* the fetch() calls made, in order: [kind, status]
    aborted,            \* the fetches whose AbortController has been aborted
    timers              \* the setTimeout callbacks that have not fired yet

serverVars == <<fs, route, body, pc, downloadId, tempDir, args, child, toolOut, stderrBuf, stdoutBuf,
                promise, files, idx, filename, fileBuffer, caught, resp, events, log, touched>>

pageVars == <<state, videoInfo, error, inputUrl, abortControllerRef, fetches, aborted, timers>>

vars == <<serverVars, pageVars>>

Dirs == {TempDirOf(id) : id \in Ids}

NoFile == [name |-> <<>>, by |-> 0]
NoResp == [status |-> 0, error |-> <<>>, body |-> NoFile, contentType |-> <<>>,
           filename |-> <<>>, formats |-> <<>>]
Pending == [state |-> "pending", reason |-> <<>>, value |-> <<>>]
NoBody == [url |-> Undefined, format |-> Undefined, original |-> FALSE]

\* NextResponse.json({ error }, { status })
ErrorResponse(status, message) == [NoResp EXCEPT !.status = status, !.error = message]

\* the handlers before any request
ServerInit ==
    /\ fs = [d \in Dirs |-> [exists |-> FALSE, entries |-> {}]]
    /\ route = [r \in Requests |-> "none"]
    /\ body = [r \in Requests |-> NoBody]
    /\ pc = [r \in Requests |-> "idle"]
    /\ downloadId = [r \in Requests |-> ""]
    /\ tempDir = [r \in Requests |-> <<>>]
    /\ args = [r \in Requests |-> <<>>]
    /\ child = [r \in Requests |-> "none"]
    /\ toolOut = [r \in Requests |-> <<>>]
    /\ stderrBuf = [r \in Requests |-> <<>>]
    /\ stdoutBuf = [r \in Requests |-> <<>>]
    /\ promise = [r \in Requests |-> Pending]
    /\ files = [r \in Requests |-> <<>>]
    /\ idx = [r \in Requests |-> 0]
    /\ filename = [r \in Requests |-> <<>>]
    /\ fileBuffer = [r \in Requests |-> NoFile]
    /\ caught = [r \in Requests |-> <<>>]
    /\ resp = [r \in Requests |-> NoResp]
    /\ events = [r \in Requests |-> <<>>]
    /\ log = [r \in Requests |-> <<>>]
    /\ touched = [r \in Requests |-> {}]

\* the page as first rendered
PageInit ==
    /\ state = "idle"
    /\ videoInfo = "null"
    /\ error = <<>>
    /\ inputUrl = <<>>
    /\ abortControllerRef = 0
    /\ fetches = <<>>
    /\ aborted = {}
    /\ timers = 0

Init == ServerInit /\ PageInit

\* whether a call may fail in the scenario: TRUE is success
Outcomes(E, op) == IF op \in E.failing THEN BOOLEAN ELSE {TRUE}

Logged(r, op, ok) == [log EXCEPT ![r] = Append(@, <<op, ok>>)]

\* the handler returns: the response is fixed and the handler is over
Respond(r, response) ==
    /\ resp' = [resp EXCEPT ![r] = response]
    /\ pc' = [pc EXCEPT ![r] = "done"]

\* the handler throws: control passes to the catch clause
Throw(r, message) ==
    /\ caught' = [caught EXCEPT ![r] = message]
    /\ pc' = [pc EXCEPT ![r] = "catch"]

(* ---------------------------------------------------------------------- *)
(* The child process and the promise around it                            *)
(* ---------------------------------------------------------------------- *)
\* faulty variant of Settle: a later call replaces the outcome
SettleLast(p, outcome) == outcome

\* resolve / reject of a promise: only the first call settles it
Settle(p, outcome) == IF p.state = "pending" THEN outcome ELSE p

Fulfilled(value) == [state |-> "fulfilled", reason |-> <<>>, value |-> value]
Rejected(reason) == [state |-> "rejected", reason |-> reason, value |-> <<>>]

\* err.message of a failed spawn
SpawnErrorMessage == <<"spawn yt-dlp ENOENT">>

\* faulty variant of DownloadOnClose: the captured text is dropped
DownloadOnCloseGeneric(code, stderr) ==
    IF code # 0 THEN Rejected(<<"yt-dlp failed">>) ELSE Fulfilled(<<>>)

\* runYtDlp: ytdlp.on('close', ...)
DownloadOnClose(code, stderr) ==
    IF code # 0
    THEN Rejected(IF stderr # <<>> THEN stderr ELSE <<"yt-dlp failed">>)
    ELSE Fulfilled(<<>>)

\* runYtDlp: ytdlp.on('error', ...)
DownloadOnError(message) ==
    Rejected(<<"yt-dlp not found. Please ensure yt-dlp is installed: ">> \o message)

\* getVideoInfo: ytdlp.on('close', ...)
InfoOnClose(code, stderr, stdout) ==
    IF code # 0
    THEN Rejected(IF stderr # <<>> THEN stderr ELSE <<"Failed to get video info">>)
    ELSE LET data == JsonParse(stdout)
         IN IF data.ok /\ data.hasFormats
            THEN Fulfilled(AudioFormatsOf(data.formats))
            ELSE Rejected(<<"Failed to parse video info">>)

\* getVideoInfo: ytdlp.on('error', ...)
InfoOnError(message) ==
    Rejected(<<"yt-dlp not found. Please install it: ">> \o message)

\* spawn('yt-dlp', args): the process starts, or it cannot be started and the
\* child will emit 'error'
Spawn(r, E, rt, argv, before) ==
    /\ args' = [args EXCEPT ![r] = argv]
    /\ \E ok \in Outcomes(E, "spawn") :
         /\ child' = [child EXCEPT ![r] = IF ok THEN "running" ELSE "spawnfail"]
         /\ log' = [log EXCEPT ![r] = @ \o before \o << <<"spawn", ok>> >>]
    /\ \E out \in (IF rt = "info" THEN E.outputs ELSE {<<>>}) :
         toolOut' = [toolOut EXCEPT ![r] = out]
    /\ pc' = [pc EXCEPT ![r] = "run"]

\* the tool writes a chunk to its standard error: stderr 'data'
StderrData(r) ==
    /\ child[r] = "running"
    /\ Len(stderrBuf[r]) < MaxStderr
    /\ stderrBuf' = [stderrBuf EXCEPT ![r] = @ \o <<"ERROR: unavailable">>]
    /\ UNCHANGED <<fs, route, body, pc, downloadId, tempDir, args, child, toolOut, stdoutBuf, promise,
                   files, idx, filename, fileBuffer, caught, resp, events, log, touched>>
    /\ UNCHANGED pageVars

\* the tool writes its next token to its standard output: stdout 'data'
\* (getVideoInfo; in runYtDlp standard output is only logged)
StdoutData(r) ==
    /\ child[r] = "running"
    /\ route[r] = "info"
    /\ toolOut[r] # <<>>
    /\ stdoutBuf' = [stdoutBuf EXCEPT ![r] = Append(@, Head(toolOut[r]))]
    /\ toolOut' = [toolOut EXCEPT ![r] = Tail(@)]
    /\ UNCHANGED <<fs, route, body, pc, downloadId, tempDir, args, child, stderrBuf, promise,
                   files, idx, filename, fileBuffer, caught, resp, events, log, touched>>
    /\ UNCHANGED pageVars

\* the tool creates (or overwrites) a file in the directory of its output template
ToolWrite(r, E) ==
    /\ child[r] = "running"
    /\ route[r] = "download"
    /\ LET dir == OutputDirOfArgs(args[r])
       IN /\ fs[dir].exists
          /\ \E name \in E.names :
               LET others == {e \in fs[dir].entries : e.name # name}
               IN /\ Cardinality(others) < MaxFiles
                  /\ [name |-> name, by |-> r] \notin fs[dir].entries
                  /\ fs' = [fs EXCEPT ![dir].entries = others \cup {[name |-> name, by |-> r]}]
    /\ UNCHANGED <<route, body, pc, downloadId, tempDir, args, child, toolOut, stderrBuf, stdoutBuf, promise,
                   files, idx, filename, fileBuffer, caught, resp, events, log, touched>>
    /\ UNCHANGED pageVars

\* the exit codes a process that ran may end with
ExitCodes == {0, 1}
\* the code of the 'close' that follows the 'error' of a failed spawn
SpawnFailCode == -2

\* 'close': after the process ended and its streams are drained, or after
\* the 'error' of a failed spawn
Close(r) ==
    /\ \/ child[r] = "running" /\ toolOut[r] = <<>>
       \/ child[r] = "errored"
    /\ \E code \in (IF child[r] = "running" THEN ExitCodes ELSE {SpawnFailCode}) :
         /\ promise' = [promise EXCEPT ![r] =
                          Settle(@, IF route[r] = "download"
                                    THEN DownloadOnClose(code, stderrBuf[r])
                                    ELSE InfoOnClose(code, stderrBuf[r], stdoutBuf[r]))]
         /\ events' = [events EXCEPT ![r] = Append(@, <<"close", code>>)]
    /\ child' = [child EXCEPT ![r] = "closed"]
    /\ UNCHANGED <<fs, route, body, pc, downloadId, tempDir, args, toolOut, stderrBuf, stdoutBuf,
                   files, idx, filename, fileBuffer, caught, resp, log, touched>>
    /\ UNCHANGED pageVars

\* 'error': the process could not be spawned
Error(r) ==
    /\ child[r] = "spawnfail"
    /\ promise' = [promise EXCEPT ![r] =
                     Settle(@, IF route[r] = "download"
                               THEN DownloadOnError(SpawnErrorMessage)
                               ELSE InfoOnError(SpawnErrorMessage))]
    /\ events' = [events EXCEPT ![r] = Append(@, <<"error", SpawnFailCode>>)]
    /\ child' = [child EXCEPT ![r] = "errored"]
    /\ UNCHANGED <<fs, route, body, pc, downloadId, tempDir, args, toolOut, stderrBuf, stdoutBuf,
                   files, idx, filename, fileBuffer, caught, resp, log, touched>>
    /\ UNCHANGED pageVars


(* ---------------------------------------------------------------------- *)
(* POST /api/download                                                      *)
(* ---------------------------------------------------------------------- *)
\* the entry of a directory with a given name, NoFile when there is none
EntryOf(dir, name) ==
    IF \E e \in fs[dir].entries : e.name = name
    THEN CHOOSE e \in fs[dir].entries : e.name = name
    ELSE NoFile

Touch(r, dir, entries) ==
    [touched EXCEPT ![r] = @ \cup {[dir |-> dir, name |-> e.name, by |-> e.by] : e \in entries}]

\* lines 14-37: the body is read and validated, the scratch directory named
DownloadReceive(r, E) ==
    /\ pc[r] = "idle"
    /\ "download" \in E.routes
    /\ route' = [route EXCEPT ![r] = "download"]
    /\ \E parsed \in Outcomes(E, "json") :
         /\ log' = Logged(r, "json", parsed)
         /\ IF ~parsed
            THEN /\ Throw(r, <<"Unexpected end of JSON input">>)
                 /\ UNCHANGED <<body, downloadId, tempDir, resp>>
            ELSE \E url \in E.urls, format \in E.formats, original \in E.originals :
                   /\ body' = [body EXCEPT ![r] =
                                 [url |-> url, format |-> format, original |-> original]]
                   /\ IF DownloadValidate(url, format, original) # <<>>
                      THEN /\ Respond(r, ErrorResponse(400, DownloadValidate(url, format, original)))
                           /\ UNCHANGED <<downloadId, tempDir, caught>>
                      ELSE /\ \E id \in E.ids :
                                /\ downloadId' = [downloadId EXCEPT ![r] = id]
                                /\ tempDir' = [tempDir EXCEPT ![r] = TempDirOf(id)]
                           /\ pc' = [pc EXCEPT ![r] = "mkdir"]
                           /\ UNCHANGED <<resp, caught>>
    /\ UNCHANGED <<fs, args, child, toolOut, stderrBuf, stdoutBuf, promise,
                   files, idx, filename, fileBuffer, events, touched>>
    /\ UNCHANGED pageVars

\* lines 37-86: mkdir completes, the arguments are built, the tool is spawned
Mkdir(r, E) ==
    /\ pc[r] = "mkdir"
    /\ \E ok \in Outcomes(E, "mkdir") :
         IF ok
         THEN /\ fs' = [fs EXCEPT ![tempDir[r]].exists = TRUE]
              /\ Spawn(r, E, "download",
                       BuildArgs(body[r].url.v, body[r].format, body[r].original, tempDir[r]),
                       << <<"mkdir", TRUE>> >>)
              /\ UNCHANGED caught
         ELSE /\ Throw(r, <<"EACCES: permission denied, mkdir">>)
              /\ log' = Logged(r, "mkdir", FALSE)
              /\ UNCHANGED <<fs, args, child, toolOut>>
    /\ UNCHANGED <<route, body, downloadId, tempDir, stderrBuf, stdoutBuf, promise,
                   files, idx, filename, fileBuffer, resp, events, touched>>
    /\ UNCHANGED pageVars

\* line 86: await runYtDlp(args) resumes once the promise is settled
AfterRun(r) ==
    /\ pc[r] = "run"
    /\ route[r] = "download"
    /\ promise[r].state # "pending"
    /\ IF promise[r].state = "fulfilled"
       THEN pc' = [pc EXCEPT ![r] = "readdir"] /\ UNCHANGED caught
       ELSE Throw(r, promise[r].reason)
    /\ UNCHANGED <<fs, route, body, downloadId, tempDir, args, child, toolOut, stderrBuf, stdoutBuf, promise,
                   files, idx, filename, fileBuffer, resp, events, log, touched>>
    /\ UNCHANGED pageVars

\* the result of lines 90-100 for a listing: the error returned, or none
SelectResult(listing) ==
    IF Len(listing) = 0 THEN <<"Download failed - no file created">>
    ELSE IF Len(AudioFilesOf(listing)) = 0 THEN <<"Download failed - no audio file created">>
    ELSE <<>>

\* lines 89-101: the directory is listed and the result file chosen
Readdir(r, E) ==
    /\ pc[r] = "readdir"
    /\ \E ok \in Outcomes(E, "readdir") :
         IF ok /\ fs[tempDir[r]].exists
         THEN \E listing \in Orders({e.name : e \in fs[tempDir[r]].entries}) :
                /\ files' = [files EXCEPT ![r] = listing]
                /\ touched' = Touch(r, tempDir[r], fs[tempDir[r]].entries)
                /\ log' = Logged(r, "readdir", TRUE)
                /\ IF SelectResult(listing) # <<>>
                   THEN /\ Respond(r, ErrorResponse(500, SelectResult(listing)))
                        /\ UNCHANGED <<filename, caught>>
                   ELSE /\ filename' = [filename EXCEPT ![r] = AudioFilesOf(listing)[1]]
                        /\ pc' = [pc EXCEPT ![r] = "stat"]
                        /\ UNCHANGED <<resp, caught>>
         ELSE /\ Throw(r, <<"ENOENT: no such file or directory, scandir">>)
              /\ log' = Logged(r, "readdir", FALSE)
              /\ UNCHANGED <<files, touched, filename, resp>>
    /\ UNCHANGED <<fs, route, body, downloadId, tempDir, args, child, toolOut, stderrBuf, stdoutBuf, promise,
                   idx, fileBuffer, events>>
    /\ UNCHANGED pageVars

\* line 102: stat(filePath); the size it returns is not modelled
Stat(r, E) ==
    /\ pc[r] = "stat"
    /\ \E ok \in Outcomes(E, "stat") :
         IF ok /\ EntryOf(tempDir[r], filename[r]) # NoFile
         THEN /\ pc' = [pc EXCEPT ![r] = "readFile"]
              /\ log' = Logged(r, "stat", TRUE)
              /\ UNCHANGED caught
         ELSE /\ Throw(r, <<"ENOENT: no such file or directory, stat">>)
              /\ log' = Logged(r, "stat", FALSE)
    /\ UNCHANGED <<fs, route, body, downloadId, tempDir, args, child, toolOut, stderrBuf, stdoutBuf, promise,
                   files, idx, filename, fileBuffer, resp, events, touched>>
    /\ UNCHANGED pageVars

\* line 103: readFile(filePath)
ReadFile(r, E) ==
    /\ pc[r] = "readFile"
    /\ \E ok \in Outcomes(E, "readFile") :
         IF ok /\ EntryOf(tempDir[r], filename[r]) # NoFile
         THEN /\ fileBuffer' = [fileBuffer EXCEPT ![r] = EntryOf(tempDir[r], filename[r])]
              /\ touched' = Touch(r, tempDir[r], {EntryOf(tempDir[r], filename[r])})
              /\ idx' = [idx EXCEPT ![r] = 1]
              /\ pc' = [pc EXCEPT ![r] = "unlink"]
              /\ log' = Logged(r, "readFile", TRUE)
              /\ UNCHANGED caught
         ELSE /\ Throw(r, <<"ENOENT: no such file or directory, open">>)
              /\ log' = Logged(r, "readFile", FALSE)
              /\ UNCHANGED <<fileBuffer, touched, idx>>
    /\ UNCHANGED <<fs, route, body, downloadId, tempDir, args, child, toolOut, stderrBuf, stdoutBuf, promise,
                   files, filename, resp, events>>
    /\ UNCHANGED pageVars

\* faulty variant of UnlinkFile: only the result file is deleted, as when
\* the cleanup unlinks filePath instead of every listed file
UnlinkFileResultOnly(r, ok, file) ==
    LET e == EntryOf(tempDir[r], file)
        done == ok /\ e # NoFile /\ file = filename[r]
    IN /\ fs' = [fs EXCEPT ![tempDir[r]].entries = IF done THEN @ \ {e} ELSE @]
       /\ touched' = IF done THEN Touch(r, tempDir[r], {e}) ELSE touched
       /\ log' = Logged(r, "unlink", done)

\* unlink(join(tempDir, file)) with its error swallowed: the entry is removed
\* when it exists and the call does not fail
UnlinkFile(r, ok, file) ==
    LET e == EntryOf(tempDir[r], file)
        done == ok /\ e # NoFile
    IN /\ fs' = [fs EXCEPT ![tempDir[r]].entries = IF done THEN @ \ {e} ELSE @]
       /\ touched' = IF done THEN Touch(r, tempDir[r], {e}) ELSE touched
       /\ log' = Logged(r, "unlink", done)

\* rmdir(tempDir) with its error swallowed: the directory is removed when it
\* exists, is empty and the call does not fail
RemoveDir(r, ok) ==
    LET done == ok /\ fs[tempDir[r]].exists /\ fs[tempDir[r]].entries = {}
    IN /\ fs' = [fs EXCEPT ![tempDir[r]].exists = IF done THEN FALSE ELSE @]
       /\ log' = Logged(r, "rmdir", done)

\* faulty variant of Swallowed: a failed removal replaces the response, as
\* when rmdir(tempDir) is awaited outside any try block
NotSwallowed(ok, response) ==
    IF ok THEN response ELSE ErrorResponse(500, <<"ENOTEMPTY: directory not empty, rmdir">>)

\* lines 129-133 and 154: `try { await rmdir(tempDir) } catch {}` and
\* `rmdir(tempDir).catch(() => {})`: the response that follows the removal
\* is the one the handler had prepared, whether the removal failed or not
Swallowed(ok, response) == response

\* faulty variant of FileResponse: the body is taken from the directory when
\* the response is made, after the cleanup, instead of from the buffer
FileResponseReadLate(name, buffer) ==
    [NoResp EXCEPT !.status = 200, !.body = NoFile,
                   !.contentType = ContentTypeOf(ExtOf(name)), !.filename = name]

\* the response of lines 136-143
FileResponse(name, buffer) ==
    [NoResp EXCEPT !.status = 200, !.body = buffer,
                   !.contentType = ContentTypeOf(ExtOf(name)), !.filename = name]

\* lines 122-128: one turn of the loop over files
Unlink(r, E) ==
    /\ pc[r] = "unlink"
    /\ \E ok \in Outcomes(E, "unlink") : UnlinkFile(r, ok, files[r][idx[r]])
    /\ idx' = [idx EXCEPT ![r] = @ + 1]
    /\ pc' = [pc EXCEPT ![r] = IF idx[r] = Len(files[r]) THEN "rmdir" ELSE "unlink"]
    /\ UNCHANGED <<route, body, downloadId, tempDir, args, child, toolOut, stderrBuf, stdoutBuf, promise,
                   files, filename, fileBuffer, caught, resp, events>>
    /\ UNCHANGED pageVars

\* lines 129-143: the directory is removed and the file returned
Rmdir(r, E) ==
    /\ pc[r] = "rmdir"
    /\ \E ok \in Outcomes(E, "rmdir") :
         /\ RemoveDir(r, ok)
         /\ Respond(r, Swallowed(ok, FileResponse(filename[r], fileBuffer[r])))
    /\ UNCHANGED <<route, body, downloadId, tempDir, args, child, toolOut, stderrBuf, stdoutBuf, promise,
                   files, idx, filename, fileBuffer, caught, events, touched>>
    /\ UNCHANGED pageVars

\* the response of lines 160-163
CaughtResponse(message) == ErrorResponse(500, message)

\* lines 144-150: the catch clause starts; it lists the directory when one
\* was named, and goes straight to the response when that listing fails
Catch(r, E) ==
    /\ pc[r] = "catch"
    /\ route[r] = "download"
    /\ IF tempDir[r] = <<>>
       THEN /\ Respond(r, CaughtResponse(caught[r]))
            /\ UNCHANGED <<files, idx, touched, log>>
       ELSE \E ok \in Outcomes(E, "cleanup readdir") :
              IF ok /\ fs[tempDir[r]].exists
              THEN \E listing \in Orders({e.name : e \in fs[tempDir[r]].entries}) :
                     /\ files' = [files EXCEPT ![r] = listing]
                     /\ idx' = [idx EXCEPT ![r] = 1]
                     /\ touched' = Touch(r, tempDir[r], fs[tempDir[r]].entries)
                     /\ log' = Logged(r, "readdir", TRUE)
                     /\ pc' = [pc EXCEPT ![r] =
                                 IF Len(listing) = 0 THEN "catch_rmdir" ELSE "catch_unlink"]
                     /\ UNCHANGED resp
              ELSE /\ Respond(r, CaughtResponse(caught[r]))
                   /\ log' = Logged(r, "readdir", FALSE)
                   /\ UNCHANGED <<files, idx, touched>>
    /\ UNCHANGED <<fs, route, body, downloadId, tempDir, args, child, toolOut, stderrBuf, stdoutBuf, promise,
                   filename, fileBuffer, caught, events>>
    /\ UNCHANGED pageVars

\* lines 151-153: one turn of the loop over files in the catch clause
CatchUnlink(r, E) ==
    /\ pc[r] = "catch_unlink"
    /\ \E ok \in Outcomes(E, "unlink") : UnlinkFile(r, ok, files[r][idx[r]])
    /\ idx' = [idx EXCEPT ![r] = @ + 1]
    /\ pc' = [pc EXCEPT ![r] = IF idx[r] = Len(files[r]) THEN "catch_rmdir" ELSE "catch_unlink"]
    /\ UNCHANGED <<route, body, downloadId, tempDir, args, child, toolOut, stderrBuf, stdoutBuf, promise,
                   files, filename, fileBuffer, caught, resp, events>>
    /\ UNCHANGED pageVars

\* lines 154-163: the directory is removed and the error returned
CatchRmdir(r, E) ==
    /\ pc[r] = "catch_rmdir"
    /\ \E ok \in Outcomes(E, "rmdir") :
         /\ RemoveDir(r, ok)
         /\ Respond(r, Swallowed(ok, CaughtResponse(caught[r])))
    /\ UNCHANGED <<route, body, downloadId, tempDir, args, child, toolOut, stderrBuf, stdoutBuf, promise,
                   files, idx, filename, fileBuffer, caught, events, touched>>
    /\ UNCHANGED pageVars


(* ---------------------------------------------------------------------- *)
(* POST /api/info                                                          *)
(* ---------------------------------------------------------------------- *)
\* lines 369-383 and 394-402: the body is read and validated, the tool spawned
InfoReceive(r, E) ==
    /\ pc[r] = "idle"
    /\ "info" \in E.routes
    /\ route' = [route EXCEPT ![r] = "info"]
    /\ \E parsed \in Outcomes(E, "json") :
         IF ~parsed
         THEN /\ Throw(r, <<"Unexpected end of JSON input">>)
              /\ log' = Logged(r, "json", FALSE)
              /\ UNCHANGED <<body, resp, args, child, toolOut>>
         ELSE \E url \in E.urls :
                /\ body' = [body EXCEPT ![r] = [NoBody EXCEPT !.url = url]]
                /\ IF UrlCheck(url) # <<>>
                   THEN /\ Respond(r, ErrorResponse(400, UrlCheck(url)))
                        /\ log' = Logged(r, "json", TRUE)
                        /\ UNCHANGED <<args, child, toolOut, caught>>
                   ELSE /\ Spawn(r, E, "info", InfoArgs(url.v), << <<"json", TRUE>> >>)
                        /\ UNCHANGED <<resp, caught>>
    /\ UNCHANGED <<fs, downloadId, tempDir, stderrBuf, stdoutBuf, promise,
                   files, idx, filename, fileBuffer, events, touched>>
    /\ UNCHANGED pageVars

\* line 383-384: await getVideoInfo(url) resumes once the promise is settled
InfoAfterRun(r) ==
    /\ pc[r] = "run"
    /\ route[r] = "info"
    /\ promise[r].state # "pending"
    /\ IF promise[r].state = "fulfilled"
       THEN /\ Respond(r, [NoResp EXCEPT !.status = 200, !.formats = promise[r].value])
            /\ UNCHANGED caught
       ELSE Throw(r, promise[r].reason) /\ UNCHANGED resp
    /\ UNCHANGED <<fs, route, body, downloadId, tempDir, args, child, toolOut, stderrBuf, stdoutBuf, promise,
                   files, idx, filename, fileBuffer, events, log, touched>>
    /\ UNCHANGED pageVars

\* lines 385-391: the catch clause returns the error
InfoCatch(r) ==
    /\ pc[r] = "catch"
    /\ route[r] = "info"
    /\ Respond(r, CaughtResponse(caught[r]))
    /\ UNCHANGED <<fs, route, body, downloadId, tempDir, args, child, toolOut, stderrBuf, stdoutBuf, promise,
                   files, idx, filename, fileBuffer, caught, events, log, touched>>
    /\ UNCHANGED pageVars

(* ---------------------------------------------------------------------- *)
(* The page: Home (src/src/app/page.tsx)                                   *)
(* A control can be used when it is rendered and not disabled; the guards  *)
(* of the actions are those conditions of the JSX.  A request and the      *)
(* reading of its body settle in one step.                                 *)
(* ---------------------------------------------------------------------- *)
\* String.prototype.trim, for the space character
RECURSIVE TrimStart(_)
TrimStart(s) == IF s # <<>> /\ Head(s) = " " THEN TrimStart(Tail(s)) ELSE s

RECURSIVE TrimEnd(_)
TrimEnd(s) ==
    IF s # <<>> /\ s[Len(s)] = " " THEN TrimEnd(SubSeq(s, 1, Len(s) - 1)) ELSE s

Trim(s) == TrimEnd(TrimStart(s))

\* what the user may have typed in the URL field
InputTexts == {<<>>, <<" ">>, ChYoutuBe \o ChPathA}

\* a fetch() that was just called
NewFetch(kind) == [kind |-> kind, status |-> "pending"]

\* the fetches of a kind that have not settled
PendingFetches(kind) ==
    {f \in 1..Len(fetches) : fetches[f].kind = kind /\ fetches[f].status = "pending"}

\* lines 190-193: onChange of the URL field, which is disabled while
\* fetching or downloading (line 197)
SetUrl ==
    /\ state \notin {"fetching", "downloading"}
    /\ \E text \in InputTexts \ {inputUrl} : inputUrl' = text
    /\ error' = IF state = "error" THEN <<>> ELSE error
    /\ UNCHANGED <<state, videoInfo, abortControllerRef, fetches, aborted, timers>>
    /\ UNCHANGED serverVars

\* lines 47-59: fetchVideoInfo up to its fetch; it is called by Enter in the
\* URL field (line 196, unless fetching; the field is disabled while
\* downloading) and by the Extract button (line 208, which calls resetState
\* instead when the state is ready or complete)
FetchVideoInfo ==
    /\ state \notin {"fetching", "downloading"}
    /\ IF Trim(inputUrl) = <<>>
       THEN /\ error' = <<"Please enter a YouTube URL">>
            /\ UNCHANGED <<state, videoInfo, fetches>>
       ELSE /\ Len(fetches) < MaxFetches
            /\ state' = "fetching"
            /\ error' = <<>>
            /\ videoInfo' = "null"
            /\ fetches' = Append(fetches, NewFetch("info"))
    /\ UNCHANGED <<inputUrl, abortControllerRef, aborted, timers>>
    /\ UNCHANGED serverVars

\* lines 60-75: fetchVideoInfo after its fetch: the data are stored, or the
\* error is shown
InfoSettles(f) ==
    /\ f \in PendingFetches("info")
    /\ fetches' = [fetches EXCEPT ![f].status = "settled"]
    /\ \E ok \in BOOLEAN :
         IF ok
         THEN /\ videoInfo' = "data"
              /\ state' = "ready"
              /\ UNCHANGED error
         ELSE /\ error' = <<"Failed to fetch video info">>
              /\ state' = "error"
              /\ UNCHANGED videoInfo
    /\ UNCHANGED <<inputUrl, abortControllerRef, aborted, timers>>
    /\ UNCHANGED serverVars

\* lines 41-45: resetState, the New URL button (line 208)
ResetState ==
    /\ state \in {"ready", "complete"}
    /\ state' = "idle"
    /\ videoInfo' = "null"
    /\ error' = <<>>
    /\ UNCHANGED <<inputUrl, abortControllerRef, fetches, aborted, timers>>
    /\ UNCHANGED serverVars

\* lines 78-90: handleDownload up to its fetch; its two buttons (lines
\* 305-307 and 375-377) are rendered with the video card (line 257) and
\* disabled while downloading only
HandleDownload ==
    /\ videoInfo # "null"
    /\ state \in {"ready", "complete"}
    /\ Len(fetches) < MaxFetches
    /\ state' = "downloading"
    /\ error' = <<>>
    /\ abortControllerRef' = Len(fetches) + 1
    /\ fetches' = Append(fetches, NewFetch("download"))
    /\ UNCHANGED <<videoInfo, inputUrl, aborted, timers>>
    /\ UNCHANGED serverVars

\* lines 128-132: cancelDownload, the Cancel button (line 318), rendered
\* while downloading.  The button lies inside a disabled button; whether
\* its click is delivered depends on the browser, and it is taken here as
\* possible
CancelDownload ==
    /\ videoInfo # "null"
    /\ state = "downloading"
    /\ aborted' = IF abortControllerRef # 0 THEN aborted \cup {abortControllerRef} ELSE aborted
    /\ UNCHANGED <<state, videoInfo, error, inputUrl, abortControllerRef, fetches, timers>>
    /\ UNCHANGED serverVars

\* lines 91-125: handleDownload after its fetch.  An aborted fetch rejects
\* with AbortError; otherwise the answer is one of those given: the file is
\* saved and the timeout set, or the error is shown
DownloadSettles(f, answers) ==
    /\ f \in PendingFetches("download")
    /\ fetches' = [fetches EXCEPT ![f].status = "settled"]
    /\ IF f \in aborted
       THEN /\ state' = "ready"
            /\ UNCHANGED <<error, timers>>
       ELSE \E answer \in answers :
              IF answer = "ok"
              THEN /\ timers < MaxTimers
                   /\ state' = "complete"
                   /\ timers' = timers + 1
                   /\ UNCHANGED error
              ELSE /\ error' = <<"Download failed">>
                   /\ state' = "error"
                   /\ UNCHANGED timers
    /\ UNCHANGED <<videoInfo, inputUrl, abortControllerRef, aborted>>
    /\ UNCHANGED serverVars

\* line 117: the callback of setTimeout(() => setState('ready'), 3000)
TimerFires ==
    /\ timers > 0
    /\ timers' = timers - 1
    /\ state' = "ready"
    /\ UNCHANGED <<videoInfo, error, inputUrl, abortControllerRef, fetches, aborted>>
    /\ UNCHANGED serverVars

(* ---------------------------------------------------------------------- *)
(* Specifications                                                          *)
(* ---------------------------------------------------------------------- *)
\* the calls of the handlers' own steps, and those of the cleanup
StepCalls == {"json", "mkdir", "spawn", "readdir", "stat", "readFile"}
CleanupCalls == {"cleanup readdir", "unlink", "rmdir"}

\* one request, of either route, with every body and tool behaviour; any
\* call of the handler's own steps may fail, the cleanup calls succeed when
\* the file system allows them
FullEnv ==
    Env({"download", "info"}, Urls, Formats, BOOLEAN, {"1"}, FileNames, ToolOutputs, StepCalls)

\* concurrent downloads: well-formed bodies, calls that fail only by what
\* the other request did
SharedEnv ==
    Env({"download"}, {Str(ChYoutuBe \o ChPathA)}, {Str(<<"mp3">>)}, {FALSE}, Ids,
        {<<"a", ".", "m", "p", "3">>, <<"a", ".", "j", "p", "g">>}, {<<>>}, {"spawn"})

Next ==
    \E r \in {1} :
        \/ DownloadReceive(r, FullEnv)
        \/ Mkdir(r, FullEnv)
        \/ StderrData(r)
        \/ ToolWrite(r, FullEnv)
        \/ Close(r)
        \/ Error(r)
        \/ AfterRun(r)
        \/ Readdir(r, FullEnv)
        \/ Stat(r, FullEnv)
        \/ ReadFile(r, FullEnv)
        \/ Unlink(r, FullEnv)
        \/ Rmdir(r, FullEnv)
        \/ Catch(r, FullEnv)
        \/ CatchUnlink(r, FullEnv)
        \/ CatchRmdir(r, FullEnv)
        \/ InfoReceive(r, FullEnv)
        \/ StdoutData(r)
        \/ InfoAfterRun(r)
        \/ InfoCatch(r)

Spec == Init /\ [][Next]_vars

NextShared ==
    \E r \in Requests :
        \/ DownloadReceive(r, SharedEnv)
        \/ Mkdir(r, SharedEnv)
        \/ StderrData(r)
        \/ ToolWrite(r, SharedEnv)
        \/ Close(r)
        \/ Error(r)
        \/ AfterRun(r)
        \/ Readdir(r, SharedEnv)
        \/ Stat(r, SharedEnv)
        \/ ReadFile(r, SharedEnv)
        \/ Unlink(r, SharedEnv)
        \/ Rmdir(r, SharedEnv)
        \/ Catch(r, SharedEnv)
        \/ CatchUnlink(r, SharedEnv)
        \/ CatchRmdir(r, SharedEnv)

SpecShared == Init /\ [][NextShared]_vars

\* one download of a well-formed body in which every call may fail, those of
\* the cleanup included
FaultEnv ==
    Env({"download"}, {Str(ChYoutuBe \o ChPathA)}, {Str(<<"mp3">>)}, {FALSE}, {"1"},
        {<<"a", ".", "m", "p", "3">>, <<"a", ".", "j", "p", "g">>, <<"b", ".", "F", "L", "A", "C">>},
        {<<>>}, StepCalls \cup CleanupCalls)

NextFaults ==
    \E r \in {1} :
        \/ DownloadReceive(r, FaultEnv)
        \/ Mkdir(r, FaultEnv)
        \/ StderrData(r)
        \/ ToolWrite(r, FaultEnv)
        \/ Close(r)
        \/ Error(r)
        \/ AfterRun(r)
        \/ Readdir(r, FaultEnv)
        \/ Stat(r, FaultEnv)
        \/ ReadFile(r, FaultEnv)
        \/ Unlink(r, FaultEnv)
        \/ Rmdir(r, FaultEnv)
        \/ Catch(r, FaultEnv)
        \/ CatchUnlink(r, FaultEnv)
        \/ CatchRmdir(r, FaultEnv)

SpecFaults == Init /\ [][NextFaults]_vars

\* the extensions of the files the tool may leave, as written on disk:
\* those of the contentTypes table, some of them in upper or mixed case,
\* some outside the table, and the empty one
Extensions ==
    { <<"m", "p", "3">>, <<"m", "4", "a">>, <<"a", "a", "c">>, <<"o", "p", "u", "s">>,
      <<"o", "g", "g">>, <<"w", "e", "b", "m">>, <<"f", "l", "a", "c">>, <<"w", "a", "v">>,
      <<"a", "l", "a", "c">>, <<"v", "o", "r", "b", "i", "s">>,
      <<"M", "P", "3">>, <<"F", "L", "A", "C">>, <<"O", "p", "u", "s">>, <<"W", "a", "V">>,
      <<"m", "k", "v">>, <<"m", "p", "4">>, <<"t", "x", "t">>, <<"j", "p", "g">>, <<>> }

\* one download of a well-formed body, converted or original, after which
\* the tool leaves files of any of these extensions
ContentEnv ==
    Env({"download"}, {Str(ChYoutuBe \o ChPathA)}, {Str(<<"mp3">>), Str(<<"flac">>)}, BOOLEAN,
        {"1"}, {<<"a", ".">> \o e : e \in Extensions} \cup {<<"a", ".", "m", "p", "3", ".", "w", "a", "v">>},
        {<<>>}, {"spawn"})

NextContent ==
    \E r \in {1} :
        \/ DownloadReceive(r, ContentEnv)
        \/ Mkdir(r, ContentEnv)
        \/ StderrData(r)
        \/ ToolWrite(r, ContentEnv)
        \/ Close(r)
        \/ Error(r)
        \/ AfterRun(r)
        \/ Readdir(r, ContentEnv)
        \/ Stat(r, ContentEnv)
        \/ ReadFile(r, ContentEnv)
        \/ Unlink(r, ContentEnv)
        \/ Rmdir(r, ContentEnv)
        \/ Catch(r, ContentEnv)
        \/ CatchUnlink(r, ContentEnv)
        \/ CatchRmdir(r, ContentEnv)

SpecContent == Init /\ [][NextContent]_vars

\* the answers a request of the page may get from a server left open
Answers == {"ok", "failed"}

\* the page alone: any use of its controls, any answer to its requests
NextPage ==
    \/ SetUrl
    \/ FetchVideoInfo
    \/ \E f \in 1..MaxFetches : InfoSettles(f)
    \/ ResetState
    \/ HandleDownload
    \/ CancelDownload
    \/ \E f \in 1..MaxFetches : DownloadSettles(f, Answers)
    \/ TimerFires

SpecPage == Init /\ [][NextPage]_vars

\* a cancelled download: the page has sent download request 1 and shows
\* Cancel; the handler serves the request, in which any call of its own
\* steps may fail
AbortEnv ==
    Env({"download"}, {Str(ChYoutuBe \o ChPathA)}, {Str(<<"mp3">>)}, {FALSE}, {"1"},
        {<<"a", ".", "m", "p", "3">>, <<"a", ".", "j", "p", "g">>}, {<<>>}, StepCalls)

InitAbort ==
    /\ ServerInit
    /\ state = "downloading"
    /\ videoInfo = "data"
    /\ error = <<>>
    /\ inputUrl = ChYoutuBe \o ChPathA
    /\ abortControllerRef = 1
    /\ fetches = <<NewFetch("download")>>
    /\ aborted = {}
    /\ timers = 0

\* the user cancels while the subprocess of request r runs; nothing in the
\* handler observes request.signal, so the abort changes the page only
AbortWhileRunning(r) ==
    /\ child[r] = "running"
    /\ abortControllerRef = r
    /\ r \notin aborted
    /\ CancelDownload

\* the answer a handler that has returned gives to the page
ServerAnswer(r) ==
    IF pc[r] = "done" THEN {IF resp[r].status = 200 THEN "ok" ELSE "failed"} ELSE {}

NextAbort ==
    \E r \in {1} :
        \/ DownloadReceive(r, AbortEnv)
        \/ Mkdir(r, AbortEnv)
        \/ StderrData(r)
        \/ ToolWrite(r, AbortEnv)
        \/ Close(r)
        \/ Error(r)
        \/ AfterRun(r)
        \/ Readdir(r, AbortEnv)
        \/ Stat(r, AbortEnv)
        \/ ReadFile(r, AbortEnv)
        \/ Unlink(r, AbortEnv)
        \/ Rmdir(r, AbortEnv)
        \/ Catch(r, AbortEnv)
        \/ CatchUnlink(r, AbortEnv)
        \/ CatchRmdir(r, AbortEnv)
        \/ AbortWhileRunning(r)
        \/ DownloadSettles(r, ServerAnswer(r))
        \/ TimerFires

SpecAbort == InitAbort /\ [][NextAbort]_vars

\* the handler's steps are taken once they can be (the event loop runs its
\* continuations), and the subprocess emits 'close' or 'error' in the end
HandlerSteps(r) ==
    \/ Mkdir(r, AbortEnv)
    \/ AfterRun(r)
    \/ Readdir(r, AbortEnv)
    \/ Stat(r, AbortEnv)
    \/ ReadFile(r, AbortEnv)
    \/ Unlink(r, AbortEnv)
    \/ Rmdir(r, AbortEnv)
    \/ Catch(r, AbortEnv)
    \/ CatchUnlink(r, AbortEnv)
    \/ CatchRmdir(r, AbortEnv)

SpecAbortFair ==
    /\ SpecAbort
    /\ WF_vars(HandlerSteps(1))
    /\ WF_vars(Close(1))
    /\ WF_vars(Error(1))


(* ---------------------------------------------------------------------- *)
(* Vocabulary of the properties                                            *)
(* ---------------------------------------------------------------------- *)
\* the handler of request r has returned its response
Returned(r) == pc[r] = "done" /\ resp[r].status # 0

\* the body of request r was read as JSON
Parsed(r) == Includes(log[r], <<"json", TRUE>>)

\* request r created its scratch directory
CreatedDir(r) == Includes(log[r], <<"mkdir", TRUE>>)

\* request r started a subprocess
Spawned(r) == \E i \in 1..Len(log[r]) : log[r][i][1] = "spawn"

\* the scratch directory of request r is gone, and so is everything in it
ScratchDeleted(r) == ~fs[tempDir[r]].exists /\ fs[tempDir[r]].entries = {}

\* the first child event delivered to request r
FirstEvent(r) == IF events[r] = <<>> THEN <<"none", 0>> ELSE events[r][1]

\* the image sidecar names among FileNames, listed by hand
SidecarNames ==
    { <<"a", ".", "j", "p", "g">>, <<"a", ".", "p", "n", "g">>, <<"a", ".", "w", "e", "b", "p">> }

\* the entries of a listing that are no image sidecars, in order
NonImages(listing) == SelectSeq(listing, LAMBDA f : f \notin SidecarNames)

(* ---------------------------------------------------------------------- *)
(* C1  Every download request that created a scratch directory has the     *)
(*     directory and every file in it deleted when the POST handler        *)
(*     returns, on the success path and on every failure path.             *)
(*     Stated as claimed; the handler returns early, without any cleanup,  *)
(*     when the listing is empty or holds only image sidecars.             *)
(* ---------------------------------------------------------------------- *)
C1_ScratchDeletedOnReturn ==
    \A r \in Requests :
        (route[r] = "download" /\ Returned(r) /\ CreatedDir(r)) => ScratchDeleted(r)

(* ---------------------------------------------------------------------- *)
(* C2  When the tool run left exactly one non-image file in the scratch    *)
(*     directory, the directory holds no entry once the handler has        *)
(*     returned, whether it returned 200 or a later step (readdir, stat,   *)
(*     readFile) threw after the spawn.                                    *)
(* ---------------------------------------------------------------------- *)
C2_OneAudioFileLeavesNothing ==
    \A r \in Requests :
        (/\ route[r] = "download"
         /\ Returned(r)
         /\ FirstEvent(r) = <<"close", 0>>
         /\ Len(NonImages(files[r])) = 1)
        => fs[tempDir[r]].entries = {}

\* a forced failure after the spawn: readFile threw with an audio file and a
\* sidecar in the directory, and the handler has returned
C2_Witness ==
    /\ route[1] = "download"
    /\ Returned(1)
    /\ FirstEvent(1) = <<"close", 0>>
    /\ Len(NonImages(files[1])) = 1
    /\ Len(files[1]) = 2
    /\ Includes(log[1], <<"readFile", FALSE>>)
    /\ resp[1].status = 500

(* ---------------------------------------------------------------------- *)
(* C3  A request whose url is missing, empty or fails the URL pattern is   *)
(*     answered 400 by either endpoint, and no subprocess is spawned.      *)
(* ---------------------------------------------------------------------- *)
C3_InvalidUrlIs400NoSpawn ==
    \A r \in Requests :
        (Parsed(r) /\ body[r].url \in InvalidUrls)
        => /\ ~Spawned(r)
           /\ child[r] = "none"
           /\ Returned(r)
           /\ resp[r].status = 400

\* the info endpoint has refused a url that differs from a valid one only
\* in the letter case of its host
C3_Witness ==
    /\ route[1] = "info"
    /\ Returned(1)
    /\ body[1].url =
         Str(ChHttps \o <<"Y", "o", "u", "T", "u", "b", "e", ".", "c", "o", "m">> \o ChPathA)
    /\ resp[1].status = 400

(* ---------------------------------------------------------------------- *)
(* C4  As claimed: a download request with a valid url, original false and *)
(*     a format value outside the allowed set is answered 400 without a    *)
(*     spawn.  The empty string is such a value, and it is not refused.    *)
(* ---------------------------------------------------------------------- *)
C4_AnyFormatOutsideSetIs400 ==
    \A r \in Requests :
        (/\ route[r] = "download"
         /\ Parsed(r)
         /\ body[r].url \in ValidUrls
         /\ ~body[r].original
         /\ body[r].format.t = "string"
         /\ body[r].format \notin AllowedFormats
         /\ Returned(r))
        => resp[r].status = 400 /\ ~Spawned(r)

(* ---------------------------------------------------------------------- *)
(* C4  Amended: a download request with a valid url, original false and a  *)
(*     non-empty format value outside the allowed set is answered 400      *)
(*     without a spawn; when original is true no format value causes a     *)
(*     400.                                                                *)
(* ---------------------------------------------------------------------- *)
C4_NonEmptyFormatOutsideSetIs400 ==
    \A r \in Requests :
        (route[r] = "download" /\ Parsed(r) /\ body[r].url \in ValidUrls)
        => /\ (~body[r].original /\ body[r].format \in OtherFormats)
              => (Returned(r) /\ resp[r].status = 400 /\ ~Spawned(r) /\ child[r] = "none")
           /\ (body[r].original /\ Returned(r)) => resp[r].status # 400

\* "mkv" can carry a thumbnail but is no allowed format: refused
C4_Witness ==
    /\ route[1] = "download"
    /\ body[1].url \in ValidUrls
    /\ ~body[1].original
    /\ body[1].format = Str(<<"mkv">>)
    /\ Returned(1)
    /\ resp[1].status = 400

(* ---------------------------------------------------------------------- *)
(* C5  After a zero-exit tool run and a listing of the scratch directory:  *)
(*     an empty listing is answered 500 "no file created", a listing of    *)
(*     image sidecars only 500 "no audio file created", and otherwise the  *)
(*     file returned is the first entry that is no image sidecar.          *)
(* ---------------------------------------------------------------------- *)
C5_ResultSelection ==
    \A r \in Requests :
        (/\ route[r] = "download"
         /\ Returned(r)
         /\ FirstEvent(r) = <<"close", 0>>
         /\ caught[r] = <<>>)
        => IF files[r] = <<>>
           THEN resp[r] = ErrorResponse(500, <<"Download failed - no file created">>)
           ELSE IF NonImages(files[r]) = <<>>
           THEN resp[r] = ErrorResponse(500, <<"Download failed - no audio file created">>)
           ELSE /\ resp[r].status = 200
                /\ resp[r].filename = NonImages(files[r])[1]
                /\ resp[r].body.name = NonImages(files[r])[1]

\* the listing starts with a sidecar and the file after it was returned
C5_Witness ==
    /\ route[1] = "download"
    /\ Returned(1)
    /\ resp[1].status = 200
    /\ Len(files[1]) = 2
    /\ files[1][1] \in SidecarNames
    /\ resp[1].filename = files[1][2]


(* ---------------------------------------------------------------------- *)
(* C6  The argument list built for the tool holds --embed-thumbnail        *)
(*     exactly once when the request is in original mode or its target     *)
(*     format (format, mp3 by default) is one of mp3, mkv, mka, ogg, opus, *)
(*     flac, m4a, mp4, m4v, mov, and not at all otherwise (best, aac,      *)
(*     alac, vorbis, wav).                                                 *)
(* ---------------------------------------------------------------------- *)
ThumbnailCapable ==
    { <<"mp3">>, <<"mkv">>, <<"mka">>, <<"ogg">>, <<"opus">>, <<"flac">>, <<"m4a">>,
      <<"mp4">>, <<"m4v">>, <<"mov">> }

Occurrences(arr, x) == Cardinality({i \in 1..Len(arr) : arr[i] = x})

C6_ThumbnailFlag ==
    \A r \in Requests :
        (route[r] = "download" /\ args[r] # <<>>)
        => LET target == IF body[r].format \in {Undefined, Str(<<>>)}
                         THEN <<"mp3">> ELSE body[r].format.v
               wanted == body[r].original \/ target \in ThumbnailCapable
           IN Occurrences(args[r], <<"--embed-thumbnail">>) = IF wanted THEN 1 ELSE 0

\* a conversion to wav was spawned without the flag
C6_Witness ==
    /\ route[1] = "download"
    /\ ~body[1].original
    /\ body[1].format = Str(<<"wav">>)
    /\ args[1] # <<>>
    /\ Occurrences(args[1], <<"--embed-thumbnail">>) = 0
    /\ child[1] = "running"

(* ---------------------------------------------------------------------- *)
(* C7  The formats returned by the info endpoint are exactly the formats   *)
(*     the tool reported with vcodec "none" and acodec other than "none",  *)
(*     in the tool's order.                                                *)
(* ---------------------------------------------------------------------- *)
\* the formats in the tool's output as the handler received it
Reported(r) == SelectSeq(stdoutBuf[r], LAMBDA t : t.k = "format")

IdsOf(formats) == [i \in 1..Len(formats) |-> formats[i].format_id]

C7_AudioOnlyFormats ==
    \A r \in Requests :
        (route[r] = "info" /\ Returned(r) /\ resp[r].status = 200)
        => IdsOf(resp[r].formats) =
             IdsOf(SelectSeq(Reported(r), LAMBDA f : f.vcodec = "none" /\ f.acodec # "none"))

\* of two reported formats, the first with both codecs "none" is dropped and
\* the second, audio only, is returned
C7_Witness ==
    /\ route[1] = "info"
    /\ Returned(1)
    /\ resp[1].status = 200
    /\ Len(Reported(1)) = 2
    /\ Reported(1)[1].vcodec = "none" /\ Reported(1)[1].acodec = "none"
    /\ IdsOf(resp[1].formats) = <<"2">>

(* ---------------------------------------------------------------------- *)
(* C8  Of two concurrent download requests whose generated identifiers     *)
(*     differ, each lists, reads and deletes only entries of its own       *)
(*     scratch directory, written by its own subprocess.                   *)
(* ---------------------------------------------------------------------- *)
C8_Isolation ==
    \A a \in Requests :
        (\A b \in Requests \ {a} : downloadId[b] # downloadId[a])
        => \A t \in touched[a] : t.by = a /\ t.dir = tempDir[a]

\* both requests are between listing and cleanup at the same time
C8_Witness ==
    /\ downloadId[1] # downloadId[2]
    /\ pc[1] = "unlink" /\ pc[2] = "readFile"
    /\ touched[1] # {} /\ touched[2] # {}

(* ---------------------------------------------------------------------- *)
(* C9  When the subprocess that ran closes with a nonzero exit code, the   *)
(*     response is 500 and its error is the text captured from standard    *)
(*     error, or the endpoint's generic message when none was captured;    *)
(*     the download handler has deleted the scratch directory by then.     *)
(* ---------------------------------------------------------------------- *)
C9_NonzeroExit ==
    \A r \in Requests :
        (Returned(r) /\ FirstEvent(r)[1] = "close" /\ FirstEvent(r)[2] # 0)
        => /\ resp[r].status = 500
           /\ resp[r].error =
                IF stderrBuf[r] # <<>> THEN stderrBuf[r]
                ELSE IF route[r] = "download" THEN <<"yt-dlp failed">>
                ELSE <<"Failed to get video info">>
           /\ route[r] = "download" => ScratchDeleted(r) /\ Includes(log[r], <<"rmdir", TRUE>>)

\* a download failed with text on standard error after the tool had left a
\* file, which the catch clause deleted
C9_Witness ==
    /\ route[1] = "download"
    /\ Returned(1)
    /\ FirstEvent(1) = <<"close", 1>>
    /\ stderrBuf[1] # <<>>
    /\ resp[1].error = stderrBuf[1]
    /\ Includes(log[1], <<"unlink", TRUE>>)

(* ---------------------------------------------------------------------- *)
(* C10 When the child emits 'error' (it could not be spawned), the promise *)
(*     is rejected with the endpoint's "yt-dlp not found" message and      *)
(*     stays so when 'close' follows; the response is 500 with that        *)
(*     message, and the download handler has deleted the scratch           *)
(*     directory by then.                                                  *)
(* ---------------------------------------------------------------------- *)
ToolNotFoundMessage(r) ==
    IF route[r] = "download"
    THEN <<"yt-dlp not found. Please ensure yt-dlp is installed: ", "spawn yt-dlp ENOENT">>
    ELSE <<"yt-dlp not found. Please install it: ", "spawn yt-dlp ENOENT">>

C10_SpawnFailure ==
    \A r \in Requests :
        FirstEvent(r)[1] = "error"
        => /\ promise[r].state = "rejected"
           /\ promise[r].reason = ToolNotFoundMessage(r)
           /\ Returned(r)
              => /\ resp[r] = ErrorResponse(500, ToolNotFoundMessage(r))
                 /\ route[r] = "download" => ScratchDeleted(r) /\ Includes(log[r], <<"rmdir", TRUE>>)

\* 'close' was delivered after 'error' and before the download handler resumed
C10_Witness ==
    /\ route[1] = "download"
    /\ pc[1] = "run"
    /\ Len(events[1]) = 2
    /\ events[1][1][1] = "error"
    /\ events[1][2][1] = "close"


(* ---------------------------------------------------------------------- *)
(* C11 A failure of a cleanup operation (listing the scratch directory,    *)
(*     deleting a file, removing the directory) never changes the          *)
(*     download handler's response: while the cleanup runs, the file that  *)
(*     was read and the error that was caught stay what they were, and the *)
(*     step that returns answers 200 with that file on the success path    *)
(*     and 500 with that error's message on a failure path.                *)
(* ---------------------------------------------------------------------- *)
InCleanup(r) ==
    /\ route[r] = "download"
    /\ pc[r] \in {"unlink", "rmdir", "catch", "catch_unlink", "catch_rmdir"}

C11_CleanupNeverChangesResponse ==
    [][\A r \in Requests :
         InCleanup(r) =>
            /\ caught'[r] = caught[r]
            /\ filename'[r] = filename[r]
            /\ fileBuffer'[r] = fileBuffer[r]
            /\ pc'[r] = "done" =>
                  resp'[r] = IF pc[r] = "rmdir"
                             THEN [NoResp EXCEPT !.status = 200,
                                                 !.body = fileBuffer[r],
                                                 !.contentType = ContentTypeOf(ExtOf(filename[r])),
                                                 !.filename = filename[r]]
                             ELSE [NoResp EXCEPT !.status = 500, !.error = caught[r]]
            /\ pc'[r] \in {pc[r], "done", "unlink", "rmdir", "catch_unlink", "catch_rmdir"}]_vars

\* the file was returned although the removal of one of two listed files
\* and the removal of the directory both failed
C11_Witness ==
    /\ Returned(1)
    /\ resp[1].status = 200
    /\ resp[1].body = fileBuffer[1]
    /\ Len(files[1]) = 2
    /\ Includes(log[1], <<"unlink", FALSE>>)
    /\ Includes(log[1], <<"unlink", TRUE>>)
    /\ Includes(log[1], <<"rmdir", FALSE>>)
    /\ fs[tempDir[1]].exists


(* ---------------------------------------------------------------------- *)
(* C12 The Content-Type of a successful download response is determined   *)
(*     by the lower-cased extension of the returned file, whatever format  *)
(*     was requested: mp3 gives audio/mpeg, m4a and alac audio/mp4, aac    *)
(*     audio/aac, opus, ogg and vorbis audio/ogg, webm audio/webm, flac    *)
(*     audio/flac, wav audio/wav, and every other extension                *)
(*     application/octet-stream.                                           *)
(* ---------------------------------------------------------------------- *)
\* the table as the claim words it
ClaimedType(e) ==
    CASE e = <<"m", "p", "3">> -> <<"audio/mpeg">>
      [] e \in {<<"m", "4", "a">>, <<"a", "l", "a", "c">>} -> <<"audio/mp4">>
      [] e = <<"a", "a", "c">> -> <<"audio/aac">>
      [] e \in {<<"o", "p", "u", "s">>, <<"o", "g", "g">>, <<"v", "o", "r", "b", "i", "s">>}
           -> <<"audio/ogg">>
      [] e = <<"w", "e", "b", "m">> -> <<"audio/webm">>
      [] e = <<"f", "l", "a", "c">> -> <<"audio/flac">>
      [] e = <<"w", "a", "v">> -> <<"audio/wav">>
      [] OTHER -> <<"application/octet-stream">>

UrlRefused(r) == resp[r].status = 400 /\ resp[r].error = <<"Invalid YouTube URL">>

C13_CaseInsensitiveUrl ==
    \A r \in Requests :
        (Parsed(r) /\ Returned(r) /\ Truthy(body[r].url))
        => (youtubeRegexTest(toLowerCase(body[r].url.v)) <=> ~UrlRefused(r))


(* ---------------------------------------------------------------------- *)
(* C14 As claimed: for every valid url the info resolver starts the tool   *)
(*     with arguments that contain -j, --no-warnings and --no-playlist,    *)
(*     and end with the url.  The list of the code is -j, --no-warnings    *)
(*     and the url: --no-playlist is not passed.                           *)
(* ---------------------------------------------------------------------- *)
C14_InfoArgs ==
    \A r \in Requests :
        (route[r] = "info" /\ Spawned(r))
        => /\ body[r].url \in ValidUrls
           /\ Includes(args[r], <<"-j">>)
           /\ Includes(args[r], <<"--no-warnings">>)
           /\ Includes(args[r], <<"--no-playlist">>)
           /\ args[r][Len(args[r])] = body[r].url.v


(* ---------------------------------------------------------------------- *)
(* C16 On the success path of the download handler the steps occur in      *)
(*     this order: the subprocess has exited, the scratch directory is     *)
(*     listed, the chosen file's size and contents are read, every listed  *)
(*     file is deleted, the directory is removed, and only then the 200    *)
(*     response is returned.  Nothing is deleted before the file has been  *)
(*     read, and the body is the file as it was before the cleanup.        *)
(* ---------------------------------------------------------------------- *)
\* the calls of a successful download, in the order they are made
SuccessLog(r) ==
    << <<"json", TRUE>>, <<"mkdir", TRUE>>, <<"spawn", TRUE>>,
       <<"readdir", TRUE>>, <<"stat", TRUE>>, <<"readFile", TRUE>> >>
    \o [i \in 1..Len(files[r]) |-> <<"unlink", TRUE>>]
    \o << <<"rmdir", TRUE>> >>

\* a file of the scratch directory of request r has been deleted, or its
\* deletion attempted
DeletionStarted(r) ==
    \E i \in 1..Len(log[r]) : log[r][i][1] \in {"unlink", "rmdir"}

C16_SuccessOrder ==
    \A r \in Requests :
        route[r] = "download" =>
            /\ pc[r] \in {"readdir", "stat", "readFile", "unlink", "rmdir"}
                 => /\ child[r] = "closed"
                    /\ events[r] = << <<"close", 0>> >>
                    /\ resp[r] = NoResp
            /\ pc[r] \in {"readdir", "stat", "readFile"}
                 => /\ ~DeletionStarted(r)
                    /\ fileBuffer[r] = NoFile
            /\ pc[r] \in {"unlink", "rmdir"}
                 => /\ fileBuffer[r] = [name |-> filename[r], by |-> r]
                    /\ SubSeq(log[r], 1, 6) = SubSeq(SuccessLog(r), 1, 6)
            /\ (Returned(r) /\ resp[r].status = 200)
                 => /\ log[r] = SuccessLog(r)
                    /\ resp[r].body = [name |-> filename[r], by |-> r]
                    /\ Includes(files[r], filename[r])
                    /\ ScratchDeleted(r)

\* a file was returned after two listed files were deleted: the audio file
\* that was read and a thumbnail beside it
C16_Witness ==
    /\ route[1] = "download"
    /\ Returned(1)
    /\ resp[1].status = 200
    /\ Len(files[1]) = 2
    /\ log[1] = SuccessLog(1)
    /\ resp[1].body = [name |-> <<"a", ".", "m", "p", "3">>, by |-> 1]
    /\ ~fs[tempDir[1]].exists


(* ---------------------------------------------------------------------- *)
(* C15 As claimed: when the client aborts a download while the subprocess  *)
(*     runs, the handler does not end the subprocess, and once the         *)
(*     subprocess has emitted 'close' or 'error' the handler completes     *)
(*     with the cleanup of the scratch directory executed.  Stated for the *)
(*     returned handler: a deletion was at least attempted.  The handler   *)
(*     returns without any when the subprocess left no file, or only       *)
(*     image sidecars.                                                     *)
(* ---------------------------------------------------------------------- *)
C15_AbortedDownloadCleansUp ==
    \A r \in Requests :
        (r \in aborted /\ route[r] = "download" /\ Returned(r))
        => /\ events[r] # <<>>
           /\ DeletionStarted(r)

\* the parts of C15 that hold: the abort changes nothing at the server, the
\* subprocess ends by itself only, ...
AbortLeavesServerAlone ==
    [][\A r \in Requests :
         /\ (r \notin aborted /\ r \in aborted') => UNCHANGED serverVars
         /\ (r \in aborted /\ child[r] = "running" /\ child'[r] # "running")
              => /\ child'[r] = "closed"
                 /\ events'[r] \in {Append(events[r], <<"close", code>>) : code \in ExitCodes}]_vars

\* ... and under SpecAbortFair the handler of an aborted request returns
AbortedDownloadReturns == \A r \in {1} : (r \in aborted) ~> Returned(r)


(* ---------------------------------------------------------------------- *)
(* C17 As claimed: in the page at most one download request is in flight   *)
(*     at any time; handleDownload is never started while an earlier       *)
(*     download request has not settled.  The timeout of a completed       *)
(*     download is not cleared: when a second download was started from    *)
(*     the state complete, the timeout sets the state to ready while that  *)
(*     download is pending, and the download buttons are enabled again.    *)
(* ---------------------------------------------------------------------- *)
C17_OneDownloadInFlight == Cardinality(PendingFetches("download")) <= 1

(* ---------------------------------------------------------------------- *)
(* C18 As claimed: in the page, whenever the state is ready, videoInfo is  *)
(*     not null.  The timeout of a completed download sets the state to    *)
(*     ready whatever happened since: after New URL (resetState), or       *)
(*     during a new lookup, videoInfo is null when it fires.               *)
(* ---------------------------------------------------------------------- *)
C18_ReadyHasVideoInfo == state = "ready" => videoInfo # "null"

====
